---- MODULE Spec2Model ----
\* Model of the plan execution engine of web_automation_ai
\* (src/ai_mcp/executor.py): execute_plan, the selector resolvers it
\* delegates to, the product extractor and the replanning callback.
\*
\* One run of execute_plan is one behaviour.  Every await of the code is a
\* separate action; the environment (the browser page, the site, the
\* replanning callback) is drawn nondeterministically at each of them.
EXTENDS Integers, Sequences, FiniteSets, TLC

\* ------------------------------------------------------------------ bounds
\* Longest initial plan that is enumerated.
MaxPlanLen == 2
\* Longest plan the callback returns.
MaxNewLen == 1
\* Number of times the callback returns a non-empty plan in Spec (the K of
\* the termination guarantee); the replan counter saturates there elsewhere.
MaxReplans == 2

\* Cards on a results page handed to extract_products on its own.
MaxCards == 2

\* Words of a goal handed to parse_price_filters on its own.
MaxGoalLen == 5

\* Largest `tries` handed to retry.
MaxTries == 4

\* Entries of the JSON array the language model answers with.
MaxModelSteps == 2

\* ------------------------------------------------------- static configuration
SEARCH_INPUTS == << "input#twotabsearchtextbox", "input[name='field-keywords']" >>

SEARCH_SUBMITS == << "input#nav-search-submit-button",
                     "input[type='submit'][value]",
                     "input[type='submit']" >>

\* ------------------------------------------------------------- small helpers
Range(s) == { s[i] : i \in 1..Len(s) }

Min(a, b) == IF a <= b THEN a ELSE b

\* "absent" for an optional number (Python None): no price is negative.
None == 0 - 3

\* ---------------------------------------------------------------- the plan
\* The actions the dispatcher knows, an action it does not know, and a plan
\* entry that is not a mapping at all (its .get raises AttributeError).
KnownActions == { "goto", "wait_for", "fill", "click", "scroll", "extract" }

NotAMapping == "<not a mapping>"

EntryKinds == KnownActions \cup { "hover", NotAMapping }

\* The selector every enumerated step carries: one that is in neither
\* fallback list, so the resolvers' candidate lists have their full length.
StepSelector == "#target"

\* A plan entry.  `plan` is its provenance: 0 for the caller's plan, k for the
\* plan the callback returned at its k-th non-empty answer.
Entry(kind, tag) == [ action |-> kind, selector |-> StepSelector, plan |-> tag ]

RECURSIVE SeqsUpTo(_, _)
SeqsUpTo(S, n) ==
    IF n = 0 THEN { << >> }
    ELSE LET shorter == SeqsUpTo(S, n - 1)
         IN  shorter \cup { Append(s, x) : s \in { t \in shorter : Len(t) = n - 1 }, x \in S }

Plans(tag, n) == SeqsUpTo({ Entry(k, tag) : k \in EntryKinds }, n)

\* ------------------------------------------------------- selector resolver
\* The page as the resolvers see it: `vis` is the set of selectors whose wait
\* and click/fill (or focus and key press) go through; on every other
\* selector some call of the attempt raises, which the resolver swallows.
AllSelectors == { StepSelector } \cup Range(SEARCH_INPUTS) \cup Range(SEARCH_SUBMITS)

\* Variant of Candidates that keeps a fallback equal to the step's selector.
CandidatesKeepsDuplicate(selector, fallbacks) ==
    << selector >> \o fallbacks

\* candidates = [selector] + [s for s in <fallbacks> if s != selector and s]
Candidates(selector, fallbacks) ==
    << selector >> \o SelectSeq(fallbacks, LAMBDA s : s # selector /\ s # "")

AnyHit(cands, vis) == \E i \in 1..Len(cands) : cands[i] \in vis

click_with_fallbacks(vis, selector) ==
    \/ AnyHit(Candidates(selector, SEARCH_SUBMITS), vis)
    \/ AnyHit(SEARCH_INPUTS, vis)

fill_with_fallbacks(vis, selector) ==
    AnyHit(Candidates(selector, SEARCH_INPUTS), vis)

\* The resolvers attempt by attempt.  A world gives, for each selector, how
\* an attempt on it ends: "ok", "timeout" (wait_for_selector times out) or
\* "fault" (the click, fill, focus or key press raises).  Nothing matches the
\* empty selector.
Outcomes == { "ok", "timeout", "fault" }

TrialSelectors == AllSelectors \cup { "" }

Worlds == { w \in [ TrialSelectors -> Outcomes ] : w[""] = "fault" }

Attempt(kind, selector, outcome) ==
    [ kind |-> kind, selector |-> selector, outcome |-> outcome ]

\* Variant of Caught for a handler written as `except TimeoutError`.
CaughtTimeoutOnly(outcome) == outcome = "timeout"

\* `except Exception: continue` around each attempt: a timeout and any other
\* error raised by a page call are both instances of Exception.
Caught(outcome) == outcome \in { "timeout", "fault" }

\* The for loop over cands from position i: the attempts it makes, up to the
\* first that succeeds (return True) or raises past the except clause.
RECURSIVE Try(_, _, _, _)
Try(kind, cands, i, w) ==
    IF i > Len(cands) THEN << >>
    ELSE LET a == Attempt(kind, cands[i], w[cands[i]])
         IN  IF a.outcome = "ok" \/ ~ Caught(a.outcome)
             THEN << a >>
             ELSE << a >> \o Try(kind, cands, i + 1, w)

\* Whether a loop left the function: its last attempt returned or raised.
Left(attempts) ==
    /\ Len(attempts) > 0
    /\ LET a == attempts[Len(attempts)]
       IN  a.outcome = "ok" \/ ~ Caught(a.outcome)

\* _click_with_fallbacks: the click candidates, then focus + Enter on the
\* search inputs.
click_attempts(w, selector) ==
    LET clicks == Try("click", Candidates(selector, SEARCH_SUBMITS), 1, w)
    IN  IF Left(clicks) THEN clicks ELSE clicks \o Try("key", SEARCH_INPUTS, 1, w)

\* _fill_with_fallbacks: the fill candidates only.
fill_attempts(w, selector) ==
    Try("fill", Candidates(selector, SEARCH_INPUTS), 1, w)

\* What the caller of a resolver gets: True, False (the loops ran out), or
\* the exception the except clause let through.
Returns(attempts) ==
    IF Len(attempts) > 0 /\ attempts[Len(attempts)].outcome = "ok" THEN "True"
    ELSE IF Left(attempts) THEN "raised"
    ELSE "False"

ResolverRun(mode, w, selector) ==
    LET attempts == IF mode = "click" THEN click_attempts(w, selector)
                                      ELSE fill_attempts(w, selector)
    IN  [ mode |-> mode, selector |-> selector, world |-> w,
          attempts |-> attempts, returns |-> Returns(attempts) ]

\* ------------------------------------------------------------ price parser
\* A goal is the sequence of its whitespace-separated words (strip() and
\* the \s* of the patterns are what the split stands for); a number such as
\* "50-100" or "$50" counts as the words the patterns see in it.
OpsMin == { "above", "over", "more than", "at least", ">", ">=" }

OpsMax == { "under", "below", "less than", "<", "<=" }

\* The alternatives of the op group of PRICE_RE.
IsOp(t) == t \in OpsMin \cup OpsMax

\* [-\u2013to]+ between the two numbers of RANGE_RE.
IsSep(t) == t \in { "to", "-" }

\* \d+(?:\.\d{1,2})? and float() of it.
IsNum(t) == t \in { "30", "50" }

float(t) == CASE t = "30" -> 30 [] t = "50" -> 50

\* RANGE_RE matches at word i: number, separator, number.
RangeAt(g, i) ==
    /\ i + 2 <= Len(g)
    /\ IsNum(g[i]) /\ IsSep(g[i + 1]) /\ IsNum(g[i + 2])

\* RANGE_RE.sub("", g) from word i on: the matches are taken left to right
\* and do not overlap.
RECURSIVE RangeSub(_, _)
RangeSub(g, i) ==
    IF i > Len(g) THEN << >>
    ELSE IF RangeAt(g, i) THEN RangeSub(g, i + 3)
    ELSE << g[i] >> \o RangeSub(g, i + 1)

\* PRICE_RE.sub("", g) from word i on: every number goes, with the operator
\* right before it when there is one.
RECURSIVE PriceSub(_, _)
PriceSub(g, i) ==
    IF i > Len(g) THEN << >>
    ELSE IF IsNum(g[i]) THEN PriceSub(g, i + 1)
    ELSE IF IsOp(g[i]) /\ i < Len(g) /\ IsNum(g[i + 1]) THEN PriceSub(g, i + 2)
    ELSE << g[i] >> \o PriceSub(g, i + 1)

Parsed(lo, hi, cleaned) == [ min_price |-> lo, max_price |-> hi, cleaned |-> cleaned ]

\* Variant of parse_price_filters that tries the single-sided pattern first.
parse_price_filters_single_first(g) ==
    LET ranges == { i \in 1..Len(g) : RangeAt(g, i) }
        nums   == { i \in 1..Len(g) : IsNum(g[i]) }
        i1     == CHOOSE k \in nums : \A j \in nums : k <= j
        op     == IF nums # { } /\ i1 > 1 /\ IsOp(g[i1 - 1]) THEN g[i1 - 1] ELSE ""
    IN  IF op \in OpsMin THEN Parsed(float(g[i1]), None, PriceSub(g, 1))
        ELSE IF op \in OpsMax THEN Parsed(None, float(g[i1]), PriceSub(g, 1))
        ELSE IF ranges # { }
        THEN LET i == CHOOSE k \in ranges : \A j \in ranges : k <= j
             IN  Parsed(float(g[i]), float(g[i + 2]), RangeSub(g, 1))
        ELSE Parsed(None, None, g)

\* parse_price_filters(goal) -> (min_price, max_price, cleaned_query)
parse_price_filters(g) ==
    LET ranges == { i \in 1..Len(g) : RangeAt(g, i) }
        nums   == { i \in 1..Len(g) : IsNum(g[i]) }
    IN  IF ranges # { }
        THEN LET i == CHOOSE k \in ranges : \A j \in ranges : k <= j
             IN  Parsed(float(g[i]), float(g[i + 2]), RangeSub(g, 1))
        ELSE IF nums # { }
        THEN LET i  == CHOOSE k \in nums : \A j \in nums : k <= j
                 op == IF i > 1 /\ IsOp(g[i - 1]) THEN g[i - 1] ELSE ""
             IN  IF op \in OpsMin THEN Parsed(float(g[i]), None, PriceSub(g, 1))
                 ELSE IF op \in OpsMax THEN Parsed(None, float(g[i]), PriceSub(g, 1))
                 ELSE Parsed(None, None, g)
        ELSE Parsed(None, None, g)

\* -------------------------------------------------------- product extractor
\* A price text as money() parses it: NaN for text with no leading number
\* (also any text starting with a dash: the split on "-" leaves ""), else the
\* number.  NoText is an absent or empty price element.
NaN == 0 - 1

NoText == 0 - 2

money(text) == IF text = NoText THEN NaN ELSE text

\* A product card of the results page: title and link ("" when the element
\* is missing), the text of its .a-price .a-offscreen element, the text of
\* its .a-color-price element, whether it carries a sponsored label and
\* whether it is a div.s-card-container (the only cards the fallback pass
\* looks at).
Card(t, l, price, color, sp, cc) ==
    [ title |-> t, link |-> l, price_text |-> price, color_price |-> color,
      sponsored |-> sp, card_container |-> cc ]

Product(t, l, p) == [ title |-> t, link |-> l, price |-> p ]

\* Variant of Accepted that lets sponsored cards through.
AcceptedKeepsSponsored(title, link, price, sponsored) ==
    ~ (title = "" \/ link = "" \/ price = NaN \/ price <= 0)

\* if (!title || !link || !Number.isFinite(price) || price <= 0 ||
\*     isSponsored(card)) return null
Accepted(title, link, price, sponsored) ==
    ~ (title = "" \/ link = "" \/ price = NaN \/ price <= 0 \/ sponsored)

\* cards.map(...).filter(Boolean) of the primary pass.
PrimaryPass(cards) ==
    LET kept == SelectSeq(cards, LAMBDA c :
                    Accepted(c.title, c.link, money(c.price_text), c.sponsored))
    IN  [ i \in 1..Len(kept) |->
            Product(kept[i].title, kept[i].link, money(kept[i].price_text)) ]

\* The fallback layout pass: container cards only, price from the offscreen
\* text or else from .a-color-price.
FallbackPriceText(c) == IF c.price_text # NoText THEN c.price_text ELSE c.color_price

FallbackPass(cards) ==
    LET kept == SelectSeq(cards, LAMBDA c :
                    /\ c.card_container
                    /\ Accepted(c.title, c.link, money(FallbackPriceText(c)), c.sponsored))
    IN  [ i \in 1..Len(kept) |->
            Product(kept[i].title, kept[i].link, money(FallbackPriceText(kept[i]))) ]

\* Variant of within_bounds that also rejects a price equal to a bound.
within_bounds_strict(p, min_price, max_price) ==
    /\ ~ (min_price # None /\ p.price <= min_price)
    /\ ~ (max_price # None /\ p.price >= max_price)

within_bounds(p, min_price, max_price) ==
    /\ ~ (min_price # None /\ p.price < min_price)
    /\ ~ (max_price # None /\ p.price > max_price)

\* list.sort(key=price): stable insertion into ascending order.
RECURSIVE SortByPrice(_)
SortByPrice(ps) ==
    IF Len(ps) <= 1 THEN ps
    ELSE LET rest  == SortByPrice(Tail(ps))
             front == SelectSeq(rest, LAMBDA q : q.price < Head(ps).price)
             back  == SelectSeq(rest, LAMBDA q : q.price >= Head(ps).price)
         IN  front \o << Head(ps) >> \o back

\* The results page as the extractor meets it: `fault` when some awaited
\* call between the first anti-bot hint and the field extraction raises,
\* `blocked` when the markup holds a block marker, `items` whether the card
\* poll finds a container, `cards` the elements the card selectors match.
Page(f, b, it, cs) == [ fault |-> f, blocked |-> b, items |-> it, cards |-> cs ]

extract_products(page, min_price, max_price) ==
    IF page.fault THEN << >>
    ELSE IF page.blocked THEN << >>
    ELSE IF ~ page.items THEN << >>
    ELSE LET primary  == PrimaryPass(page.cards)
             products == IF Len(primary) = 0 THEN FallbackPass(page.cards) ELSE primary
             bounded  == SelectSeq(products, LAMBDA p :
                            within_bounds(p, min_price, max_price) /\ p.price > 0)
         IN  SortByPrice(bounded)

\* The extractor phase by phase.  What the body goes through when no call
\* raises: the anti-bot hints, the navigation, the block check (page.content
\* and the marker test), then either the block diagnostics, or the overlay
\* dismissal, the waits, the scrolling and the card poll, followed by the
\* no-cards diagnostics or by the field-extraction passes, the bound filter
\* and the no-products diagnostics or the sort.
PassProducts(cards) ==
    IF Len(PrimaryPass(cards)) = 0 THEN FallbackPass(cards) ELSE PrimaryPass(cards)

Bounded(products, min_price, max_price) ==
    SelectSeq(products, LAMBDA p : within_bounds(p, min_price, max_price) /\ p.price > 0)

\* Variant of Phases that goes on past a block marker.
PhasesIgnoresBlock(page, min_price, max_price) ==
    << "hints", "goto", "block_check", "popups", "wait", "scroll", "poll" >>
    \o (IF ~ page.items THEN << "cards_diag" >>
        ELSE << "primary" >>
             \o (IF Len(PrimaryPass(page.cards)) = 0 THEN << "fallback" >> ELSE << >>)
             \o << "filter" >>
             \o (IF Len(Bounded(PassProducts(page.cards), min_price, max_price)) = 0
                 THEN << "products_diag" >> ELSE << "sort" >>))

\* Variant of Phases that never runs the fallback layout pass.
PhasesNoFallback(page, min_price, max_price) ==
    << "hints", "goto", "block_check" >>
    \o (IF page.blocked THEN << "block_diag" >>
        ELSE << "popups", "wait", "scroll", "poll" >>
             \o (IF ~ page.items THEN << "cards_diag" >>
                 ELSE << "primary", "filter" >>
                      \o (IF Len(Bounded(PrimaryPass(page.cards), min_price, max_price)) = 0
                          THEN << "products_diag" >> ELSE << "sort" >>)))

Phases(page, min_price, max_price) ==
    << "hints", "goto", "block_check" >>
    \o (IF page.blocked THEN << "block_diag" >>
        ELSE << "popups", "wait", "scroll", "poll" >>
             \o (IF ~ page.items THEN << "cards_diag" >>
                 ELSE << "primary" >>
                      \o (IF Len(PrimaryPass(page.cards)) = 0 THEN << "fallback" >> ELSE << >>)
                      \o << "filter" >>
                      \o (IF Len(Bounded(PassProducts(page.cards), min_price, max_price)) = 0
                          THEN << "products_diag" >> ELSE << "sort" >>)))

\* The phases that await a page call or write a file outside a try of
\* their own: each can raise into the except clause of the body.
FaultPoints ==
    { "hints", "goto", "block_check", "block_diag", "wait", "scroll", "poll",
      "cards_diag", "primary", "fallback", "products_diag" }

\* Variant of OnException whose diagnostics are not guarded.
OnExceptionUnguarded(diag_ok) == [ products |-> << >>, raised |-> ~ diag_ok ]

\* except Exception: the diagnostics in a try of their own whose except
\* passes, then return [].
OnException(diag_ok) == [ products |-> << >>, raised |-> FALSE ]

\* One call of extract_products: on `page`, with the bound of the goal,
\* `where` the phase that raises ("none": no phase does) and diag_ok whether
\* the diagnostics of the except clause go through.
ExtractorRun(page, min_price, max_price, where, diag_ok) ==
    LET path == Phases(page, min_price, max_price)
        end  == path[Len(path)]
        has(ph) == \E i \in 1..Len(path) : path[i] = ph
    IN  IF where # "none"
        THEN LET k == CHOOSE i \in 1..Len(path) : path[i] = where
             IN  [ trace |-> SubSeq(path, 1, k) \o << "except_diag" >>,
                   products |-> OnException(diag_ok).products,
                   raised |-> OnException(diag_ok).raised ]
        ELSE [ trace |-> path,
               products |-> IF end # "sort" THEN << >>
                            ELSE SortByPrice(Bounded(
                                    IF has("fallback") THEN FallbackPass(page.cards)
                                                       ELSE PrimaryPass(page.cards),
                                    min_price, max_price)),
               raised |-> FALSE ]

\* Variant of Cheapest that takes the last product of the sorted list.
CheapestTakesLast(products) == products[Len(products)]

\* min(products, key=price): the first product of least price.
Cheapest(products) ==
    products[CHOOSE i \in 1..Len(products) :
                /\ \A j \in 1..Len(products) : products[i].price <= products[j].price
                /\ \A j \in 1..(i - 1) : products[j].price > products[i].price]

\* ------------------------------------------------------------ environment
\* The cards the enumerated results pages are made of.
CardA == Card("A", "/a", 1, NoText, FALSE, TRUE)

CardB == Card("B", "/b", 2, NoText, FALSE, FALSE)

CardC == Card("C", "/c", 1, NoText, FALSE, FALSE)

CardSponsored == Card("S", "/s", 1, NoText, TRUE, TRUE)

CardNoPrice == Card("N", "/n", NaN, NoText, FALSE, FALSE)

CardColorPrice == Card("F", "/f", NoText, 2, FALSE, TRUE)

CardZero == Card("Z", "/z", 0, NoText, FALSE, TRUE)

CardNoTitle == Card("", "/t", 1, NoText, FALSE, TRUE)

CardNoLink == Card("L", "", 1, NoText, FALSE, TRUE)

\* The cards a page handed to extract_products on its own is made of.
CardPool ==
    { CardA, CardB, CardC, CardSponsored, CardNoPrice, CardColorPrice, CardZero,
      CardNoTitle, CardNoLink }

Pages ==
    { Page(TRUE, FALSE, FALSE, << >>),
      Page(FALSE, TRUE, FALSE, << >>),
      Page(FALSE, FALSE, FALSE, << >>),
      Page(FALSE, FALSE, TRUE, << CardB, CardA >>),
      Page(FALSE, FALSE, TRUE, << CardA, CardC >>),
      Page(FALSE, FALSE, TRUE, << CardSponsored, CardNoPrice >>),
      Page(FALSE, FALSE, TRUE, << CardColorPrice, CardSponsored >>),
      Page(FALSE, FALSE, TRUE, << CardB >>) }

NoPage == Page(FALSE, FALSE, FALSE, << >>)

\* The goal, by the price bound build_amazon_search_url derives from it.
Goal(lo, hi) == [ min_price |-> lo, max_price |-> hi ]

Goals == { Goal(None, None), Goal(None, 1) }

\* The goals extract_products is called with on its own: no bound, "under 1",
\* "over 2".
TrialGoals == { Goal(None, None), Goal(None, 1), Goal(2, None) }

\* What the world does to one dispatched step: `fault` is "raise" when the
\* awaited page call raises something other than a timeout, "timeout" when
\* it runs into the timeout it was given, "ready_timeout" when only the
\* DOM-ready wait after a goto times out; `vis` what the resolvers find;
\* `page` what the extractor meets.
Env(f, v, pg) == [ fault |-> f, vis |-> v, page |-> pg ]

\* The faults that leave the awaited call as an exception.
Raises(fault) == fault \in { "raise", "timeout" }

\* str(e) of the exception.
FaultText(action, fault) ==
    CASE fault = "timeout" /\ action = "goto"     -> "Timeout 60000ms exceeded."
      [] fault = "timeout" /\ action = "wait_for" -> "Timeout 30000ms exceeded."
      [] action = "goto"                          -> "goto: navigation failed"
      [] action = "wait_for"                      -> "wait_for: selector is invalid"
      [] OTHER                                    -> "scroll: page closed"

EnvsFor(action) ==
    CASE action = "goto"                   -> { Env(f, {}, NoPage) : f \in { "no", "ready_timeout", "timeout", "raise" } }
      [] action = "wait_for"               -> { Env(f, {}, NoPage) : f \in { "no", "timeout", "raise" } }
      [] action = "scroll"                 -> { Env(f, {}, NoPage) : f \in { "no", "raise" } }
      [] action \in { "fill", "click" }     -> { Env("no", v, NoPage) : v \in SUBSET AllSelectors }
      [] action = "extract"                -> { Env("no", {}, pg) : pg \in Pages }
      [] OTHER                             -> { Env("no", {}, NoPage) }

\* The callback's answers: it raises, it returns something truthy that is
\* not a mapping, it returns no steps (None, {} or an empty list), or it
\* returns a mapping with a non-empty step list.
Answer(k, new_steps) == [ kind |-> k, steps |-> new_steps ]

NoStepsAnswers == { Answer(k, << >>) : k \in { "raise", "not_mapping", "mapping" } }

PlanAnswers(tag) == { Answer("mapping", new) : new \in Plans(tag, MaxNewLen) \ { << >> } }

\* ------------------------------------------------------------------ state
VARIABLES
    pc,          \* where execute_plan stands (the await it is at)
    state,       \* SETUP, RUNNING, REPLANNING, DONE, ABORTED, RAISED
    steps,       \* the current plan
    step_idx,    \* 0-based index of the next step
    results,     \* the result record: data, selected (<< >> while unset), errors
    llm_fn,      \* whether a replanning callback is configured
    goal,        \* the goal of the run
    playwright,  \* the async_playwright() scope: "active" or "stopped"
    browser,     \* "none", "open", or "closed" by browser.close()
    context,     \* "none", "open", or "closed" by context.close()
    exc,         \* "none", or where the exception now propagating was raised
    replans,     \* non-empty plans received from the callback so far
    executed,    \* steps dispatched since the current plan was installed
    last,        \* the step dispatched last under the current plan
    page_context, \* the snapshot the failure handler took last
    llm_calls,   \* arguments of the callback invocations made for the failure at hand
    resolver,    \* << >>, or one run of a selector resolver on its own
    extractor,   \* << >>, or one run of extract_products on its own
    parser,      \* << >>, or one run of parse_price_filters on its own
    planner,     \* << >>, or one run of generate_ai_plan on its own
    retrier,     \* << >>, or one run of retry on its own
    runs,        \* << >>, or the execute_plan calls that run side by side
    files,       \* << >>, or the diagnostic files in the working directory
    service      \* << >>, or the /run-ai request being served

\* The functions run on their own, outside an execute_plan call.
aside == << planner, retrier, runs, files, service >>

pure == << resolver, extractor, parser, aside >>

\* generate_ai_plan and retry are not called, no calls run side by side and
\* no request is served.
AsideIdle ==
    /\ planner = << >>
    /\ retrier = << >>
    /\ runs = << >>
    /\ files = << >>
    /\ service = << >>

vars == << pc, state, steps, step_idx, results, llm_fn, goal, playwright,
           browser, context, exc, replans, executed, last, page_context,
           llm_calls, pure >>

engine == << pc, state, steps, step_idx, results, llm_fn, goal, playwright,
             browser, context, exc, replans, executed, last, page_context,
             llm_calls >>

\* What extract_mcp_context_payload returns for the page as the step
\* dispatched last left it; NoContext while page_context is unbound.
SnapshotOf(step) == [ plan |-> step.plan, idx |-> step.idx ]

NoContext == [ plan |-> 0 - 1, idx |-> 0 - 1 ]

NoStep ==
    [ idx |-> 0 - 1, plan |-> 0 - 1, action |-> "", treated |-> "",
      resolved |-> "n/a", products |-> << >> ]

Init ==
    /\ pc = "launch"
    /\ state = "SETUP"
    /\ steps \in Plans(0, MaxPlanLen)
    /\ step_idx = 0
    /\ results = [ data |-> << >>, selected |-> << >>, errors |-> << >> ]
    /\ llm_fn \in BOOLEAN
    /\ goal \in Goals
    /\ playwright = "active"
    /\ browser = "none"
    /\ context = "none"
    /\ exc = "none"
    /\ replans = 0
    /\ executed = 0
    /\ last = NoStep
    /\ page_context = NoContext
    /\ llm_calls = << >>
    /\ resolver = << >>
    /\ extractor = << >>
    /\ parser = << >>
    /\ AsideIdle

\* ------------------------------------------------------------ session setup
\* An exception raised before the try statement is entered leaves through
\* the async_playwright() scope only: the finally clause is not in its way.
RaiseInSetup ==
    /\ exc' = "setup"
    /\ state' = "RAISED"
    /\ pc' = "scope_exit"

Launch(ok) ==
    /\ pc = "launch"
    /\ IF ok
       THEN browser' = "open" /\ pc' = "new_context" /\ UNCHANGED << exc, state >>
       ELSE RaiseInSetup /\ UNCHANGED browser
    /\ UNCHANGED << steps, step_idx, results, llm_fn, goal, playwright, context,
                    replans, executed, last,
                    page_context, llm_calls, pure >>

NewContext(ok) ==
    /\ pc = "new_context"
    /\ IF ok
       THEN context' = "open" /\ pc' = "new_page" /\ UNCHANGED << exc, state >>
       ELSE RaiseInSetup /\ UNCHANGED context
    /\ UNCHANGED << steps, step_idx, results, llm_fn, goal, playwright, browser,
                    replans, executed, last,
                    page_context, llm_calls, pure >>

NewPage(ok) ==
    /\ pc = "new_page"
    /\ IF ok
       THEN pc' = "page_setup" /\ UNCHANGED << exc, state >>
       ELSE RaiseInSetup
    /\ UNCHANGED << steps, step_idx, results, llm_fn, goal, playwright, browser,
                    context, replans, executed, last,
                    page_context, llm_calls, pure >>

\* _wait_ready (its own timeout swallowed), add_init_script,
\* set_extra_http_headers, set_viewport_size; then the try is entered and
\* step_idx is set to 0.
PageSetup(ok) ==
    /\ pc = "page_setup"
    /\ IF ok
       THEN pc' = "loop" /\ state' = "RUNNING" /\ step_idx' = 0 /\ UNCHANGED exc
       ELSE RaiseInSetup /\ UNCHANGED step_idx
    /\ UNCHANGED << steps, results, llm_fn, goal, playwright, browser, context,
                    replans, executed, last,
                    page_context, llm_calls, pure >>

\* ---------------------------------------------------------------- the loop
\* What the dispatched handler does with `step` in world `env`: whether it
\* returns (ok) or raises (err is str(e)), what the resolver returned
\* ("n/a" outside fill and click) and what the extractor returned.
Outcome(ok, err, resolved, products) ==
    [ ok |-> ok, err |-> err, resolved |-> resolved, products |-> products ]

Resolved(b) == IF b THEN "yes" ELSE "no"

\* Variant of RunHandler that rejects an action it does not know.
RunHandlerRejectsUnknown(step, env, g) ==
    CASE step.action = "goto" ->
            Outcome(~ Raises(env.fault), FaultText("goto", env.fault), "n/a", << >>)
      [] step.action = "wait_for" ->
            Outcome(~ Raises(env.fault), FaultText("wait_for", env.fault), "n/a", << >>)
      [] step.action = "fill" ->
            Outcome(TRUE, "", Resolved(fill_with_fallbacks(env.vis, step.selector)), << >>)
      [] step.action = "click" ->
            Outcome(TRUE, "", Resolved(click_with_fallbacks(env.vis, step.selector)), << >>)
      [] step.action = "scroll" ->
            Outcome(~ Raises(env.fault), FaultText("scroll", env.fault), "n/a", << >>)
      [] step.action = "extract" ->
            LET products == extract_products(env.page, g.min_price, g.max_price)
            IN  Outcome(Len(products) > 0, "Extraction failed.", "n/a", products)
      [] OTHER ->
            Outcome(FALSE, "Unknown action", "n/a", << >>)

\* The handler chain of one loop iteration: the branch of the action, or the
\* final else, which prints "Unknown action" and falls through.
\* Variant of RunHandler that lets a timed-out page call pass.
RunHandlerSwallowsTimeout(step, env, g) ==
    CASE step.action = "goto" ->
            Outcome(env.fault # "raise", FaultText("goto", env.fault), "n/a", << >>)
      [] step.action = "wait_for" ->
            Outcome(env.fault # "raise", FaultText("wait_for", env.fault), "n/a", << >>)
      [] step.action = "fill" ->
            Outcome(TRUE, "", Resolved(fill_with_fallbacks(env.vis, step.selector)), << >>)
      [] step.action = "click" ->
            Outcome(TRUE, "", Resolved(click_with_fallbacks(env.vis, step.selector)), << >>)
      [] step.action = "scroll" ->
            Outcome(env.fault # "raise", FaultText("scroll", env.fault), "n/a", << >>)
      [] step.action = "extract" ->
            LET products == extract_products(env.page, g.min_price, g.max_price)
            IN  Outcome(Len(products) > 0, "Extraction failed.", "n/a", products)
      [] OTHER ->
            Outcome(TRUE, "", "n/a", << >>)

RunHandler(step, env, g) ==
    CASE step.action = "goto" ->
            Outcome(~ Raises(env.fault), FaultText("goto", env.fault), "n/a", << >>)
      [] step.action = "wait_for" ->
            Outcome(~ Raises(env.fault), FaultText("wait_for", env.fault), "n/a", << >>)
      [] step.action = "fill" ->
            Outcome(TRUE, "", Resolved(fill_with_fallbacks(env.vis, step.selector)), << >>)
      [] step.action = "click" ->
            Outcome(TRUE, "", Resolved(click_with_fallbacks(env.vis, step.selector)), << >>)
      [] step.action = "scroll" ->
            Outcome(~ Raises(env.fault), FaultText("scroll", env.fault), "n/a", << >>)
      [] step.action = "extract" ->
            LET products == extract_products(env.page, g.min_price, g.max_price)
            IN  Outcome(Len(products) > 0, "Extraction failed.", "n/a", products)
      [] OTHER ->
            Outcome(TRUE, "", "n/a", << >>)

\* Variant of RecordExtraction that adds the products to those it has.
RecordExtractionAppends(res, products) ==
    [ res EXCEPT !.data = @ \o products, !.selected = << Cheapest(products) >> ]

\* results["data"] = products; results["selected"] = min(products, key=price)
RecordExtraction(res, products) ==
    [ res EXCEPT !.data = products, !.selected = << Cheapest(products) >> ]

\* Variant of RecordError that also drops the selection made so far.
RecordErrorDropsSelected(res, msg) ==
    [ res EXCEPT !.errors = Append(@, msg), !.selected = << >> ]

\* Variant of RecordError that records the message twice.
RecordErrorTwice(res, msg) == [ res EXCEPT !.errors = Append(Append(@, msg), msg) ]

\* results["errors"].append(msg)
RecordError(res, msg) == [ res EXCEPT !.errors = Append(@, msg) ]

\* Variant of Finish that leaves the loop one step early.
FinishEarly ==
    /\ pc = "loop"
    /\ step_idx + 1 >= Len(steps)
    /\ state' = "DONE"
    /\ pc' = "close_context"
    /\ UNCHANGED << steps, step_idx, results, llm_fn, goal, playwright, browser,
                    context, exc, replans, executed, last,
                    page_context, llm_calls, pure >>

\* The while condition is false: return results.
Finish ==
    /\ pc = "loop"
    /\ step_idx >= Len(steps)
    /\ state' = "DONE"
    /\ pc' = "close_context"
    /\ UNCHANGED << steps, step_idx, results, llm_fn, goal, playwright, browser,
                    context, exc, replans, executed, last,
                    page_context, llm_calls, pure >>

\* step.get on an entry that is not a mapping raises before the inner try
\* is entered: no handler catches it, the finally clause runs.
CrashOnEntry ==
    /\ pc = "loop"
    /\ step_idx < Len(steps)
    /\ steps[step_idx + 1].action = NotAMapping
    /\ exc' = "entry"
    /\ state' = "RAISED"
    /\ pc' = "close_context"
    /\ UNCHANGED << steps, step_idx, results, llm_fn, goal, playwright, browser,
                    context, replans, executed, last,
                    page_context, llm_calls, pure >>

\* One iteration of the loop on a well-formed entry, up to the first await
\* of the failure handler.
Dispatch(env) ==
    /\ pc = "loop"
    /\ step_idx < Len(steps)
    /\ LET step == steps[step_idx + 1]
           out  == RunHandler(step, env, goal)
       IN  /\ step.action # NotAMapping
           /\ env \in EnvsFor(step.action)
           /\ executed' = executed + 1
           /\ last' = [ idx |-> step_idx, plan |-> step.plan, action |-> step.action,
                        treated |-> IF out.ok THEN "success" ELSE "failure",
                        resolved |-> out.resolved, products |-> out.products ]
           /\ IF out.ok
              THEN /\ results' = IF step.action = "extract"
                                 THEN RecordExtraction(results, out.products)
                                 ELSE results
                   /\ step_idx' = step_idx + 1
                   /\ UNCHANGED << pc, state >>
              ELSE /\ step_idx' = step_idx
                   /\ IF llm_fn
                      THEN /\ pc' = "snapshot"
                           /\ state' = "REPLANNING"
                           /\ UNCHANGED results
                      ELSE /\ results' = RecordError(results, out.err)
                           /\ state' = "ABORTED"
                           /\ pc' = "close_context"
           /\ llm_calls' = IF out.ok \/ ~ llm_fn THEN llm_calls ELSE << >>
    /\ UNCHANGED << steps, llm_fn, goal, playwright, browser, context, exc, replans,
                    page_context, pure >>

\* Variant of Snapshot that keeps a snapshot once one has been taken.
SnapshotCached ==
    /\ pc = "snapshot"
    /\ page_context' = IF page_context = NoContext THEN SnapshotOf(last) ELSE page_context
    /\ pc' = "call_llm"
    /\ UNCHANGED << state, steps, step_idx, results, llm_fn, goal, playwright,
                    browser, context, exc, replans, executed, last,
                    llm_calls, pure >>

\* extract_mcp_context_payload(page): every fault inside it is swallowed.
Snapshot ==
    /\ pc = "snapshot"
    /\ page_context' = SnapshotOf(last)
    /\ pc' = "call_llm"
    /\ UNCHANGED << state, steps, step_idx, results, llm_fn, goal, playwright,
                    browser, context, exc, replans, executed, last,
                    llm_calls, pure >>

\* Variant of Replan that records the failure even when a plan comes back.
ReplanRecordsFailure(answer) ==
    IF answer.kind = "mapping" /\ Len(answer.steps) > 0
    THEN /\ steps' = answer.steps
         /\ step_idx' = 0
         /\ state' = "RUNNING"
         /\ pc' = "loop"
         /\ replans' = Min(replans + 1, MaxReplans)
         /\ executed' = 0
         /\ last' = NoStep
         /\ results' = [ results EXCEPT !.errors = Append(@, "step failed") ]
         /\ UNCHANGED exc
    ELSE /\ results' = [ results EXCEPT !.errors = Append(@, "No steps generated during replan.") ]
         /\ state' = "ABORTED"
         /\ pc' = "close_context"
         /\ UNCHANGED << steps, step_idx, exc, replans, executed, last >>

\* Variant of Replan that installs the new plan but keeps step_idx.
ReplanKeepsIndex(answer) ==
    IF answer.kind = "mapping" /\ Len(answer.steps) > 0
    THEN /\ steps' = answer.steps
         /\ state' = "RUNNING"
         /\ pc' = "loop"
         /\ replans' = Min(replans + 1, MaxReplans)
         /\ executed' = 0
         /\ last' = NoStep
         /\ UNCHANGED << step_idx, results, exc >>
    ELSE /\ results' = [ results EXCEPT !.errors = Append(@, "No steps generated during replan.") ]
         /\ state' = "ABORTED"
         /\ pc' = "close_context"
         /\ UNCHANGED << steps, step_idx, exc, replans, executed, last >>

\* Variant of Replan with a cap of one replan cycle.
ReplanCapped(answer) ==
    IF answer.kind = "mapping" /\ Len(answer.steps) > 0 /\ replans < 1
    THEN /\ steps' = answer.steps
         /\ step_idx' = 0
         /\ state' = "RUNNING"
         /\ pc' = "loop"
         /\ replans' = Min(replans + 1, MaxReplans)
         /\ executed' = 0
         /\ last' = NoStep
         /\ UNCHANGED << results, exc >>
    ELSE /\ results' = [ results EXCEPT !.errors = Append(@, "replan limit exceeded") ]
         /\ state' = "ABORTED"
         /\ pc' = "close_context"
         /\ UNCHANGED << steps, step_idx, exc, replans, executed, last >>

\* call_llm_fn and what the handler does with its answer.
Replan(answer) ==
    IF answer.kind = "raise"
    THEN /\ exc' = "callback"
         /\ state' = "RAISED"
         /\ pc' = "close_context"
         /\ UNCHANGED << steps, step_idx, results, replans, executed, last >>
    ELSE IF answer.kind = "not_mapping"
    THEN /\ exc' = "plan_obj"
         /\ state' = "RAISED"
         /\ pc' = "close_context"
         /\ UNCHANGED << steps, step_idx, results, replans, executed, last >>
    ELSE IF Len(answer.steps) > 0
    THEN /\ steps' = answer.steps
         /\ step_idx' = 0
         /\ state' = "RUNNING"
         /\ pc' = "loop"
         /\ replans' = Min(replans + 1, MaxReplans)
         /\ executed' = 0
         /\ last' = NoStep
         /\ UNCHANGED << results, exc >>
    ELSE /\ results' = RecordError(results, "No steps generated during replan.")
         /\ state' = "ABORTED"
         /\ pc' = "close_context"
         /\ UNCHANGED << steps, step_idx, exc, replans, executed, last >>

\* call_llm_fn(llm_fn, goal, page_context), awaited, and what the handler
\* does with its answer.
CallLlm(answer) ==
    /\ pc = "call_llm"
    /\ llm_calls' = Append(llm_calls, [ goal |-> goal, context |-> page_context ])
    /\ Replan(answer)
    /\ UNCHANGED << llm_fn, goal, playwright, browser, context, page_context, pure >>

\* ------------------------------------------------------------------ teardown
CloseContext ==
    /\ pc = "close_context"
    /\ context' = "closed"
    /\ pc' = "close_browser"
    /\ UNCHANGED << state, steps, step_idx, results, llm_fn, goal, playwright,
                    browser, exc, replans, executed, last,
                    page_context, llm_calls, pure >>

CloseBrowser ==
    /\ pc = "close_browser"
    /\ browser' = "closed"
    /\ pc' = "scope_exit"
    /\ UNCHANGED << state, steps, step_idx, results, llm_fn, goal, playwright,
                    context, exc, replans, executed, last,
                    page_context, llm_calls, pure >>

\* Leaving the async_playwright() scope: the call returns results, or the
\* pending exception reaches the caller.
ScopeExit ==
    /\ pc = "scope_exit"
    /\ playwright' = "stopped"
    /\ pc' = "exit"
    /\ UNCHANGED << state, steps, step_idx, results, llm_fn, goal, browser,
                    context, exc, replans, executed, last,
                    page_context, llm_calls, pure >>

\* ------------------------------------------------------------ specification
AllEnvs == UNION { EnvsFor(a) : a \in EntryKinds }

LlmAnswers ==
    NoStepsAnswers \cup (IF replans < MaxReplans THEN PlanAnswers(replans + 1) ELSE {})

Next ==
    \/ \E ok \in BOOLEAN : Launch(ok)
    \/ \E ok \in BOOLEAN : NewContext(ok)
    \/ \E ok \in BOOLEAN : NewPage(ok)
    \/ \E ok \in BOOLEAN : PageSetup(ok)
    \/ Finish
    \/ CrashOnEntry
    \/ \E env \in AllEnvs : Dispatch(env)
    \/ Snapshot
    \/ \E answer \in LlmAnswers : CallLlm(answer)
    \/ CloseContext
    \/ CloseBrowser
    \/ ScopeExit

Spec == Init /\ [][Next]_vars

\* Every await of the run resolves: the event loop keeps scheduling the one
\* coroutine, and every page call carries a timeout.
FairSpec == Spec /\ WF_vars(Next)

\* The run of the unbounded-replanning risk: a callback is configured, the
\* session comes up, step 0 of every plan fails and the callback always
\* answers with another non-empty plan.
FailingActions == { "goto", "wait_for", "scroll", "extract" }

LoopInit ==
    /\ Init
    /\ llm_fn
    /\ Len(steps) > 0
    /\ steps[1].action \in FailingActions

LoopAnswers ==
    { a \in PlanAnswers(Min(replans + 1, MaxReplans)) : a.steps[1].action \in FailingActions }

LoopNext ==
    \/ Launch(TRUE)
    \/ NewContext(TRUE)
    \/ NewPage(TRUE)
    \/ PageSetup(TRUE)
    \/ \E env \in AllEnvs : Dispatch(env) /\ last'.treated = "failure"
    \/ Snapshot
    \/ \E answer \in LoopAnswers : CallLlm(answer)

LoopSpec == LoopInit /\ [][LoopNext]_vars /\ WF_vars(LoopNext)

\* ------------------------------------------------ the functions on their own
\* No execute_plan call is under way: the engine's variables stay put.
Idle ==
    /\ pc = "idle"
    /\ state = "SETUP"
    /\ steps = << >>
    /\ step_idx = 0
    /\ results = [ data |-> << >>, selected |-> << >>, errors |-> << >> ]
    /\ llm_fn = FALSE
    /\ goal = Goal(None, None)
    /\ playwright = "active"
    /\ browser = "none"
    /\ context = "none"
    /\ exc = "none"
    /\ replans = 0
    /\ executed = 0
    /\ last = NoStep
    /\ page_context = NoContext
    /\ llm_calls = << >>

\* A resolver is about to be called in `mode` on `selector` in world w.
ResolverCall(mode, w, selector) ==
    [ mode |-> mode, selector |-> selector, world |-> w,
      attempts |-> << >>, returns |-> "pending" ]

ResolverInit ==
    /\ Idle
    /\ resolver \in { << ResolverCall(mode, w, selector) >> :
                        mode \in { "click", "fill" }, w \in Worlds,
                        selector \in TrialSelectors }
    /\ extractor = << >>
    /\ parser = << >>
    /\ AsideIdle

\* await _click_with_fallbacks(page, selector)
RunClick ==
    /\ resolver # << >>
    /\ resolver[1].mode = "click"
    /\ resolver[1].returns = "pending"
    /\ resolver' = << ResolverRun("click", resolver[1].world, resolver[1].selector) >>
    /\ UNCHANGED << engine, extractor, parser, aside >>

\* await _fill_with_fallbacks(page, selector, value)
RunFill ==
    /\ resolver # << >>
    /\ resolver[1].mode = "fill"
    /\ resolver[1].returns = "pending"
    /\ resolver' = << ResolverRun("fill", resolver[1].world, resolver[1].selector) >>
    /\ UNCHANGED << engine, extractor, parser, aside >>

ResolverNext == RunClick \/ RunFill

\* The words the enumerated goals are made of.
GoalWords == { "hat", "under", "over", "above", "to", "30", "50" }

NotParsed == Parsed(None, None, << >>)

\* parse_price_filters is about to be called on goal g.
ParserCall(g) == [ goal |-> g, calls |-> 0, first |-> NotParsed, second |-> NotParsed ]

ParserInit ==
    /\ Idle
    /\ resolver = << >>
    /\ extractor = << >>
    /\ parser \in { << ParserCall(g) >> : g \in SeqsUpTo(GoalWords, MaxGoalLen) }
    /\ AsideIdle

\* parse_price_filters(goal)
ParseGoal ==
    /\ parser # << >>
    /\ parser[1].calls = 0
    /\ parser' = << [ parser[1] EXCEPT !.calls = 1,
                                       !.first = parse_price_filters(parser[1].goal) ] >>
    /\ UNCHANGED << engine, resolver, extractor, aside >>

\* parse_price_filters(cleaned), on the cleaned query of the first call.
ParseCleaned ==
    /\ parser # << >>
    /\ parser[1].calls = 1
    /\ parser' = << [ parser[1] EXCEPT !.calls = 2,
                                       !.second = parse_price_filters(parser[1].first.cleaned) ] >>
    /\ UNCHANGED << engine, resolver, extractor, aside >>

ParserNext == ParseGoal \/ ParseCleaned

ParserSpec == ParserInit /\ [][ParserNext]_vars

\* extract_products is about to be called.
ExtractorCall(page, g, where, diag_ok) ==
    [ page |-> page, min_price |-> g.min_price, max_price |-> g.max_price,
      where |-> where, diag_ok |-> diag_ok,
      trace |-> << >>, products |-> << >>, raised |-> FALSE, returned |-> FALSE ]

ExtractorInit ==
    /\ Idle
    /\ resolver = << >>
    /\ parser = << >>
    /\ AsideIdle
    /\ \E cards \in SeqsUpTo(CardPool, MaxCards), blocked \in BOOLEAN, items \in BOOLEAN,
          g \in TrialGoals, where \in FaultPoints \cup { "none" }, diag_ok \in BOOLEAN :
          LET page == Page(where # "none", blocked, items, cards)
              path == Phases(page, g.min_price, g.max_price)
          IN  /\ where # "none" => \E i \in 1..Len(path) : path[i] = where
              /\ where = "none" => diag_ok
              /\ extractor = << ExtractorCall(page, g, where, diag_ok) >>

\* await extract_products(page, goal=goal)
RunExtractor ==
    /\ extractor # << >>
    /\ ~ extractor[1].returned
    /\ LET c   == extractor[1]
           run == ExtractorRun(c.page, c.min_price, c.max_price, c.where, c.diag_ok)
       IN  extractor' = << [ c EXCEPT !.trace = run.trace, !.products = run.products,
                                      !.raised = run.raised, !.returned = TRUE ] >>
    /\ UNCHANGED << engine, resolver, parser, aside >>

ExtractorNext == RunExtractor

ExtractorSpec == ExtractorInit /\ [][ExtractorNext]_vars

ResolverSpec == ResolverInit /\ [][ResolverNext]_vars

\* ------------------------------------------------------------------ planner
\* A key the entry does not have.
Absent == "<absent>"

\* An entry of the array the model answers with: a JSON object with the
\* keys action, selector, target, value (any of them missing), or a JSON
\* value that is no object (a number, a string, null, a nested array).
PlanStep(a, sel, t, v) == [ action |-> a, selector |-> sel, target |-> t, value |-> v ]

NonMapping == PlanStep(NotAMapping, Absent, Absent, Absent)

ModelEntries ==
    { PlanStep(a, sel, t, v) : a \in { "fill", "extract" }, sel \in { Absent, "#s" },
                               t \in { Absent, "#t" }, v \in { Absent, "", "v" } }
        \cup { NonMapping }

\* What happens between the call and the parsed answer: no API key, the
\* API call raises, the text is empty, the text is no JSON and holds no
\* bracket pair, the bracketed part is no JSON either, the bracketed part
\* parses ("salvaged"), the JSON is no list, the JSON is a list.
ModelOutcome(k, entries) == [ kind |-> k, entries |-> entries ]

ModelOutcomes ==
    { ModelOutcome(k, << >>) : k \in { "no_key", "api_error", "empty_text", "unparseable",
                                       "salvage_fails", "not_a_list" } }
        \cup { ModelOutcome(k, es) : k \in { "list", "salvaged" },
                                     es \in SeqsUpTo(ModelEntries, MaxModelSteps) }

PlannerGoals == { "hat", "mug under 30" }

\* The six steps of the default plan.
FallbackSteps(g) ==
    << PlanStep("goto", "https://www.amazon.com", Absent, Absent),
       PlanStep("wait_for", "#twotabsearchtextbox", Absent, Absent),
       PlanStep("fill", "#twotabsearchtextbox", Absent, g),
       PlanStep("click", "#nav-search-submit-button", Absent, Absent),
       PlanStep("wait_for", "div[data-component-type='s-search-result']", Absent, Absent),
       PlanStep("extract", "div[data-component-type='s-search-result']", Absent, Absent) >>

\* `steps` when the fallback test is reached: every fault of the guarded
\* block leaves the empty list it started with.
ParsedSteps(outcome) ==
    IF outcome.kind \in { "list", "salvaged" } THEN outcome.entries ELSE << >>

\* `if not steps or not isinstance(steps, list)`
NeedsFallback(outcome) ==
    outcome.kind \notin { "list", "salvaged" } \/ Len(outcome.entries) = 0

\* One turn of the normalization loop on a mapping: target is renamed to
\* selector, a fill without a (truthy) value gets the goal.
NormalizeStep(step, g) ==
    LET renamed == IF step.target # Absent
                   THEN [ step EXCEPT !.selector = step.target, !.target = Absent ]
                   ELSE step
    IN  IF renamed.action = "fill" /\ renamed.value \in { Absent, "" }
        THEN [ renamed EXCEPT !.value = g ]
        ELSE renamed

PlannerReturn(raised, steps_) == [ raised |-> raised, steps |-> steps_ ]

\* generate_ai_plan(goal, page_context): the normalization loop runs
\* outside every try statement, and `"target" in step` / step.get raise
\* on an entry that is no mapping.
generate_ai_plan(g, outcome) ==
    LET steps_ == IF NeedsFallback(outcome) THEN FallbackSteps(g) ELSE ParsedSteps(outcome)
    IN  IF \E i \in 1..Len(steps_) : steps_[i] = NonMapping
        THEN PlannerReturn(TRUE, << >>)
        ELSE PlannerReturn(FALSE, [ i \in 1..Len(steps_) |-> NormalizeStep(steps_[i], g) ])

PlannerCall(g, outcome) ==
    [ goal |-> g, outcome |-> outcome, status |-> "pending", steps |-> << >> ]

PlannerInit ==
    /\ Idle
    /\ resolver = << >>
    /\ extractor = << >>
    /\ parser = << >>
    /\ retrier = << >>
    /\ runs = << >>
    /\ files = << >>
    /\ service = << >>
    /\ planner \in { << PlannerCall(g, outcome) >> : g \in PlannerGoals, outcome \in ModelOutcomes }

RunPlanner ==
    /\ planner # << >>
    /\ planner[1].status = "pending"
    /\ LET c   == planner[1]
           ret == generate_ai_plan(c.goal, c.outcome)
       IN  planner' = << [ c EXCEPT !.status = IF ret.raised THEN "raised" ELSE "returned",
                                    !.steps = ret.steps ] >>
    /\ UNCHANGED << engine, resolver, extractor, parser, retrier, runs, files, service >>

PlannerNext == RunPlanner

PlannerSpec == PlannerInit /\ [][PlannerNext]_vars

\* -------------------------------------------------------------------- retry
\* retry(fn, tries, delay) is about to be called: `outcomes` says, call by
\* call, whether fn returns ("ok") or raises; the value fn returns at its
\* k-th call and the error it raises there are both written k.
RetryCall(tries, outcomes) ==
    [ tries |-> tries, outcomes |-> outcomes, calls |-> 0, last_err |-> None,
      status |-> "running", result |-> None ]

RetryInit ==
    /\ Idle
    /\ resolver = << >>
    /\ extractor = << >>
    /\ parser = << >>
    /\ planner = << >>
    /\ runs = << >>
    /\ files = << >>
    /\ service = << >>
    /\ retrier \in { << RetryCall(tries, outcomes) >> :
                       tries \in (0 - 1)..MaxTries,
                       outcomes \in [ 1..MaxTries -> { "ok", "raise" } ] }

\* One turn of `for _ in range(tries)`: return fn(), or keep the error in
\* last_err and sleep.
RetryTurn ==
    /\ retrier # << >>
    /\ retrier[1].status = "running"
    /\ retrier[1].calls < retrier[1].tries
    /\ LET r == retrier[1]
           k == r.calls + 1
       IN  retrier' = << IF r.outcomes[k] = "ok"
                         THEN [ r EXCEPT !.calls = k, !.status = "returned", !.result = k ]
                         ELSE [ r EXCEPT !.calls = k, !.last_err = k ] >>
    /\ UNCHANGED << engine, resolver, extractor, parser, planner, runs, files, service >>

\* Variant of RetryExhausted that drops the error.
RetryExhaustedSwallows ==
    /\ retrier # << >>
    /\ retrier[1].status = "running"
    /\ retrier[1].calls >= retrier[1].tries
    /\ retrier' = << [ retrier[1] EXCEPT !.status = "returned" ] >>
    /\ UNCHANGED << engine, resolver, extractor, parser, planner, runs, files, service >>

\* The loop has run out: `if last_err: raise last_err`, else the function
\* ends and returns None.
RetryExhausted ==
    /\ retrier # << >>
    /\ retrier[1].status = "running"
    /\ retrier[1].calls >= retrier[1].tries
    /\ retrier' = << [ retrier[1] EXCEPT
                          !.status = IF retrier[1].last_err # None THEN "raised"
                                                                   ELSE "returned" ] >>
    /\ UNCHANGED << engine, resolver, extractor, parser, planner, runs, files, service >>

RetryNext == RetryTurn \/ RetryExhausted

RetrySpec == RetryInit /\ [][RetryNext]_vars

\* ------------------------------------------------------ concurrent executions
\* The files extract_products writes its diagnostics to: fixed names in the
\* working directory of the process.
DiagFiles ==
    { "debug_amazon_item.html", "debug_captcha.png", "debug_no_cards.png",
      "debug_no_products.png" }

\* The files each diagnostic phase writes.
WrittenBy(phase) ==
    CASE phase = "block_diag"    -> { "debug_captcha.png", "debug_amazon_item.html" }
      [] phase = "cards_diag"    -> { "debug_amazon_item.html", "debug_no_cards.png" }
      [] phase = "products_diag" -> { "debug_amazon_item.html", "debug_no_products.png" }
      [] OTHER                   -> {}

\* No run has written the file.
NoWriter == 0

\* No browser has been launched for the run yet.
NoSession == 0

\* One execute_plan call whose plan is a single extract step: it creates
\* its result object and its browser session, awaits extract_products
\* phase by phase on what its own page shows, and records the products.
RunPath(page) ==
    << "launch" >> \o ExtractorRun(page, None, None, "none", TRUE).trace \o << "record" >>

ConcurrentRun(page) ==
    [ page |-> page, at |-> 0, session |-> NoSession,
      results |-> [ data |-> << >>, errors |-> << >> ] ]

ConcurrentInit ==
    /\ Idle
    /\ resolver = << >>
    /\ extractor = << >>
    /\ parser = << >>
    /\ planner = << >>
    /\ retrier = << >>
    /\ service = << >>
    /\ runs \in { << ConcurrentRun(pg1), ConcurrentRun(pg2) >> : pg1 \in Pages, pg2 \in Pages }
    /\ files = [ f \in DiagFiles |-> NoWriter ]

\* The browser object a launch returns: one no other run holds.
FreshSession == 1 + Cardinality({ i \in 1..Len(runs) : runs[i].session # NoSession })

\* Run i is resumed and goes on to its next suspension point.
RunStep(i) ==
    /\ runs # << >>
    /\ runs[i].at < Len(RunPath(runs[i].page))
    /\ LET r        == runs[i]
           phase    == RunPath(r.page)[r.at + 1]
           products == ExtractorRun(r.page, None, None, "none", TRUE).products
       IN  /\ runs' = [ runs EXCEPT ![i] =
                          [ r EXCEPT !.at = r.at + 1,
                                     !.session = IF phase = "launch" THEN FreshSession ELSE @,
                                     !.results = IF phase # "record" THEN @
                                                 ELSE IF Len(products) > 0
                                                 THEN [ @ EXCEPT !.data = products ]
                                                 ELSE [ @ EXCEPT !.errors = << "Extraction failed." >> ] ] ]
           /\ files' = [ f \in DiagFiles |-> IF f \in WrittenBy(phase) THEN i ELSE files[f] ]
    /\ UNCHANGED << engine, resolver, extractor, parser, planner, retrier, service >>

ConcurrentNext == \E i \in 1..2 : RunStep(i)

ConcurrentSpec == ConcurrentInit /\ [][ConcurrentNext]_vars

\* ------------------------------------------------------------------ /run-ai
\* The goal of the request, as the planner reads it and as the extractor
\* bounds prices with it.
ServiceGoal == "hat"

\* A step as execute_plan reads it: its action and its selector.
ToEntries(planned, tag) ==
    [ i \in 1..Len(planned) |->
        [ action   |-> planned[i].action,
          selector |-> IF planned[i].selector = Absent THEN "" ELSE planned[i].selector,
          plan     |-> tag ] ]

\* What call_llm_fn hands back when the callback is generate_ai_plan.
PlannerAnswer(outcome, tag) ==
    LET ret == generate_ai_plan(ServiceGoal, outcome)
    IN  IF ret.raised THEN Answer("raise", << >>)
                      ELSE Answer("mapping", ToEntries(ret.steps, tag))

\* The model calls of a request: every way of yielding nothing usable, and
\* the arrays of one entry.
ServiceOutcomes == { outcome \in ModelOutcomes : Len(outcome.entries) <= 1 }

ServiceAnswers ==
    { PlannerAnswer(outcome, Min(replans + 1, MaxReplans)) : outcome \in ServiceOutcomes }

\* The site stays blocked: no extract step of the request gets a product.
ServiceEnvs ==
    { env \in AllEnvs : Len(extract_products(env.page, None, None)) = 0 }

ServiceCall == [ at |-> "context", response |-> "none" ]

ServiceInit ==
    /\ Idle
    /\ resolver = << >>
    /\ extractor = << >>
    /\ parser = << >>
    /\ planner = << >>
    /\ retrier = << >>
    /\ runs = << >>
    /\ files = << >>
    /\ service = << ServiceCall >>

\* await extract_page_context(...): it raises or returns nothing (error
\* response), or returns the context.
GetContext(ok) ==
    /\ service # << >>
    /\ service[1].at = "context"
    /\ service' = << IF ok THEN [ service[1] EXCEPT !.at = "plan" ]
                          ELSE [ at |-> "responded", response |-> "error" ] >>
    /\ UNCHANGED << engine, resolver, extractor, parser, planner, retrier, runs, files >>

\* plan = generate_ai_plan(goal, context_data); the guard of run_ai turns
\* an exception into the error response, an empty plan is answered with
\* "planned", any other plan is handed to execute_plan with the planner
\* as its callback.
FirstPlan(outcome) ==
    /\ service # << >>
    /\ service[1].at = "plan"
    /\ LET ret == generate_ai_plan(ServiceGoal, outcome)
       IN  IF ret.raised \/ Len(ret.steps) = 0
           THEN /\ service' = << [ at |-> "responded",
                                   response |-> IF ret.raised THEN "error" ELSE "planned" ] >>
                /\ UNCHANGED engine
           ELSE /\ service' = << [ service[1] EXCEPT !.at = "execute" ] >>
                /\ pc' = "launch"
                /\ steps' = ToEntries(ret.steps, 0)
                /\ llm_fn' = TRUE
                /\ UNCHANGED << state, step_idx, results, goal, playwright, browser,
                                context, exc, replans, executed, last,
                                page_context, llm_calls >>
    /\ UNCHANGED << resolver, extractor, parser, planner, retrier, runs, files >>

\* execute_plan has returned or raised: the "completed" response, or the
\* error response of the guard.
Respond ==
    /\ service # << >>
    /\ service[1].at = "execute"
    /\ pc = "exit"
    /\ service' = << [ at |-> "responded",
                       response |-> IF state = "RAISED" THEN "error" ELSE "completed" ] >>
    /\ UNCHANGED << engine, resolver, extractor, parser, planner, retrier, runs, files >>

\* The request from end to end.  The planner hands execute_plan mappings
\* only, so no entry crashes the loop.
ServiceNext ==
    \/ \E ok \in BOOLEAN : GetContext(ok)
    \/ \E outcome \in ServiceOutcomes : FirstPlan(outcome)
    \/ \E ok \in BOOLEAN : Launch(ok)
    \/ \E ok \in BOOLEAN : NewContext(ok)
    \/ \E ok \in BOOLEAN : NewPage(ok)
    \/ \E ok \in BOOLEAN : PageSetup(ok)
    \/ Finish
    \/ \E env \in ServiceEnvs : Dispatch(env)
    \/ Snapshot
    \/ \E answer \in ServiceAnswers : CallLlm(answer)
    \/ CloseContext
    \/ CloseBrowser
    \/ ScopeExit
    \/ Respond

ServiceSpec == ServiceInit /\ [][ServiceNext]_vars /\ WF_vars(ServiceNext)

\* --------------------------------------------------------------- properties
Returned == pc = "exit" /\ exc = "none"

HasExtract(plan) == \E i \in 1..Len(plan) : plan[i].action = "extract"

\* A step of the loop that dispatched a handler.
Dispatched == pc = "loop" /\ executed' = executed + 1

\* C1: execute_plan never throws: whatever the plan entries, the handlers,
\* the snapshotter and the callback do, the call does not end with an
\* exception raised by a plan entry, by the callback or by its answer.
C1_NeverThrows ==
    ~ (pc = "exit" /\ exc \in { "entry", "callback", "plan_obj" })

\* C2: when the callback raises or yields no steps, the engine records the
\* diagnostic error, goes to ABORTED and executes no further step.
C2_NoPlanAborts ==
    [][ (pc = "call_llm" /\ pc' = "close_context" /\ exc' # "plan_obj")
            => /\ state' = "ABORTED"
               /\ results'.errors = Append(results.errors, "No steps generated during replan.")
               /\ step_idx' = step_idx ]_vars

\* C3 as stated: with no callback configured, a step failure ends the run
\* in ABORTED with exactly one entry in errors and selected unset.
C3_FailureLeavesSelectedUnset ==
    (~ llm_fn /\ last.treated = "failure")
        => /\ state = "ABORTED"
           /\ Len(results.errors) = 1
           /\ results.selected = << >>

\* C3 as amended: with no callback configured, a step failure appends the
\* failure to errors (its only entry), aborts at that step without
\* dispatching another, and leaves data and selected as they were before
\* the failing step: selected is unset only if no extract step succeeded
\* earlier in the run.
C3_FailureAbortsKeepingSelected ==
    /\ [] ( (~ llm_fn /\ last.treated = "failure")
              => /\ state = "ABORTED"
                 /\ pc \in { "close_context", "close_browser", "scope_exit", "exit" }
                 /\ Len(results.errors) = 1
                 /\ step_idx = last.idx
                 /\ (results.selected = << >>) <=> (results.data = << >>) )
    /\ [][ (Dispatched /\ ~ llm_fn /\ last'.treated = "failure")
              => /\ results'.selected = results.selected
                 /\ results'.data = results.data
                 /\ Len(results'.errors) = Len(results.errors) + 1 ]_vars

C3_Witness ==
    /\ ~ llm_fn
    /\ Returned
    /\ state = "ABORTED"
    /\ last.treated = "failure"
    /\ results.selected # << >>

\* C4: a run that replanned and then completed a plan containing an
\* extract ends in DONE with errors empty and selected set; receiving a new
\* plan records nothing about the failure that asked for it.
C4_ReplanThenSuccessIsClean ==
    /\ [] ( (state = "DONE" /\ replans >= 1 /\ HasExtract(steps))
              => /\ results.errors = << >>
                 /\ results.selected # << >> )
    /\ [][ (pc = "call_llm" /\ pc' = "loop") => results' = results ]_vars

C4_Witness ==
    /\ Returned
    /\ state = "DONE"
    /\ replans >= 1
    /\ HasExtract(steps)
    /\ results.selected # << >>

\* C5: after the callback returns a non-empty step list every entry of the
\* current plan is one of that list, the steps dispatched under it are
\* exactly its entries 0 .. step_idx - 1 in order, and the step dispatched
\* last is an entry of it, never one of a replaced plan.
C5_PlanReplacedWholesale ==
    /\ \A i \in 1..Len(steps) : steps[i].plan = replans
    /\ pc = "loop" => step_idx = executed
    /\ last # NoStep => (last.plan = replans /\ last.idx = executed - 1)

C5_Witness ==
    /\ replans >= 1
    /\ last # NoStep
    /\ last.idx = 0
    /\ last.plan = replans
    /\ steps[1].plan = replans

\* C6: if the callback returns a non-empty plan at most MaxReplans times,
\* every step failure handed to the callback is followed by the run
\* reaching DONE or ABORTED.
C6_FailureLeadsToDoneOrAborted ==
    (state = "REPLANNING") ~> (state \in { "DONE", "ABORTED" })

\* C7: with a callback that always returns a non-empty plan whose step 0
\* fails, the engine never reaches DONE or ABORTED and keeps replanning:
\* it is awaiting the callback, and back at step 0 of a new plan, again and
\* again without end.
C7_ReplansForever ==
    /\ [] (state \notin { "DONE", "ABORTED", "RAISED" })
    /\ []<> (pc = "call_llm")
    /\ []<> (pc = "loop" /\ step_idx = 0 /\ executed = 0 /\ replans >= 1)

C7_Witness ==
    /\ replans = MaxReplans
    /\ pc = "call_llm"
    /\ state = "REPLANNING"
    /\ last.idx = 0
    /\ last.plan = MaxReplans

C9_ResolutionFailureFailsStep ==
    last.action \in { "fill", "click" }
        => (last.treated = "success" <=> last.resolved = "yes")

\* C10: whenever selected is set it is a member of data of least price; an
\* extract step with a non-empty extractor result succeeds and sets data to
\* that result and selected; one with an empty result is a step failure
\* that leaves data and selected unchanged.
C10_SelectedIsCheapestOfData ==
    /\ [] ( results.selected # << >>
              => /\ \E i \in 1..Len(results.data) : results.data[i] = results.selected[1]
                 /\ \A i \in 1..Len(results.data) :
                        results.selected[1].price <= results.data[i].price )
    /\ [][ (Dispatched /\ last'.action = "extract")
              => IF last'.products # << >>
                 THEN /\ last'.treated = "success"
                      /\ step_idx' = step_idx + 1
                      /\ results'.data = last'.products
                      /\ results'.selected # << >>
                 ELSE /\ last'.treated = "failure"
                      /\ step_idx' = step_idx
                      /\ results'.data = results.data
                      /\ results'.selected = results.selected ]_vars

C10_Witness ==
    /\ last.action = "extract"
    /\ last.treated = "success"
    /\ Len(results.data) = 2
    /\ results.data[1].price < results.data[2].price
    /\ results.selected = << results.data[1] >>

\* C11: a step whose action is none of the six known ones is a no-op
\* success: it adds nothing to results (errors included), the callback is
\* not asked (the loop stays in RUNNING), step_idx advances by exactly one;
\* and a run that ends DONE, such as an unknown step followed by a step
\* that succeeds, has no error recorded.
C11_UnknownActionIsNoOp ==
    /\ [][ (Dispatched /\ steps[step_idx + 1].action \notin KnownActions)
              => /\ last'.treated = "success"
                 /\ step_idx' = step_idx + 1
                 /\ results' = results
                 /\ pc' = "loop"
                 /\ state' = "RUNNING"
                 /\ steps' = steps ]_vars
    /\ [](state = "DONE" => results.errors = << >>)

C11_Witness ==
    /\ Returned
    /\ state = "DONE"
    /\ replans = 0
    /\ Len(steps) = 2
    /\ steps[1].action \notin KnownActions
    /\ steps[2].action \in KnownActions
    /\ executed = 2
    /\ results.errors = << >>

\* C12: on every step failure with a callback configured the handler takes
\* a snapshot of the page as the failed step left it, one that differs from
\* the snapshot of the failure before; it then invokes the callback exactly
\* once, with the goal of the run and that snapshot; and from the failure
\* until the callback has returned no step is dispatched and the plan and
\* step_idx stay as they are.
C12_FreshSnapshotThenOneCall ==
    /\ [](state = "REPLANNING" => llm_fn /\ pc \in { "snapshot", "call_llm" })
    /\ [](pc \in { "snapshot", "call_llm" }
            => /\ last.treated = "failure"
               /\ last.idx = step_idx
               /\ llm_calls = << >>)
    /\ [](pc = "call_llm" => page_context = SnapshotOf(last))
    /\ [][ pc = "snapshot" => page_context' # page_context ]_vars
    /\ [][ pc = "call_llm"
              => llm_calls' = << [ goal |-> goal, context |-> SnapshotOf(last) ] >> ]_vars
    /\ [][ pc' \in { "snapshot", "call_llm" }
              => (pc = "loop" \/ (executed' = executed /\ steps' = steps /\ step_idx' = step_idx)) ]_vars
    /\ [][ goal' = goal ]_vars
    /\ [](Len(llm_calls) <= 1)

\* The callback has been asked a second time, with the snapshot taken after
\* the failure of a step of the plan it gave the first time.
C12_Witness ==
    /\ state = "ABORTED"
    /\ replans = 1
    /\ last.plan = 1
    /\ last.treated = "failure"
    /\ llm_calls = << [ goal |-> goal, context |-> SnapshotOf(last) ] >>

\* C13: a resolver, in click mode and in fill mode, hands its caller True
\* or False and never an exception: a wait that times out and a click, fill,
\* focus or key press that raises both mean "try the next candidate"; it
\* answers False exactly when every attempt of its full list was made and
\* failed, and True exactly when the engine's view of it says so.
C13_ResolverNeverRaises ==
    (resolver # << >> /\ resolver[1].returns # "pending") =>
        LET r    == resolver[1]
            vis  == { x \in AllSelectors : r.world[x] = "ok" }
            full == 1 + Cardinality({ x \in Range(IF r.mode = "click" THEN SEARCH_SUBMITS
                                                                      ELSE SEARCH_INPUTS) :
                                       x # r.selector })
                      + (IF r.mode = "click" THEN Len(SEARCH_INPUTS) ELSE 0)
        IN  /\ r.returns \in { "True", "False" }
            /\ r.returns = "False"
                 <=> /\ Len(r.attempts) = full
                     /\ \A j \in 1..Len(r.attempts) : r.attempts[j].outcome # "ok"
            /\ r.returns = "True"
                 <=> IF r.mode = "click" THEN click_with_fallbacks(vis, r.selector)
                                         ELSE fill_with_fallbacks(vis, r.selector)

\* A click resolved on the third candidate, after a timeout on the step's
\* selector and a raising click on the first fallback.
C13_Witness ==
    /\ resolver # << >>
    /\ resolver[1].mode = "click"
    /\ resolver[1].selector = StepSelector
    /\ Len(resolver[1].attempts) = 3
    /\ resolver[1].attempts[1].outcome = "timeout"
    /\ resolver[1].attempts[2].outcome = "fault"
    /\ resolver[1].returns = "True"

\* C14: a resolver attempts the step's selector first, then the fallback
\* selectors of its mode in list order, leaving out one equal to the step's
\* selector, each at most once, and stops at the first attempt that
\* succeeds; focus + Enter on the search inputs is attempted in click mode
\* only, and only after every click candidate has been attempted and has
\* failed.
C14_CandidateOrder ==
    (resolver # << >> /\ resolver[1].returns # "pending") =>
        LET r    == resolver[1]
            at   == r.attempts
            fb   == IF r.mode = "click" THEN SEARCH_SUBMITS ELSE SEARCH_INPUTS
            own  == { j \in 1..Len(at) : at[j].kind = r.mode }
            keys == { j \in 1..Len(at) : at[j].kind = "key" }
            eligible == { i \in 1..Len(fb) : fb[i] # r.selector }
        IN  /\ Len(at) >= 1
            /\ own \cup keys = 1..Len(at)
            /\ at[1].kind = r.mode /\ at[1].selector = r.selector
            /\ \A j \in own \ { 1 } :
                   \E i \in eligible :
                       /\ at[j].selector = fb[i]
                       /\ Cardinality({ k \in eligible : k < i }) = j - 2
            /\ \A j, k \in 1..Len(at) :
                   (j # k /\ at[j].kind = at[k].kind) => at[j].selector # at[k].selector
            /\ \A j \in 1..(Len(at) - 1) : at[j].outcome # "ok"
            /\ at[Len(at)].outcome # "ok"
                 => Len(at) = 1 + Cardinality(eligible)
                                + (IF r.mode = "click" THEN Len(SEARCH_INPUTS) ELSE 0)
            /\ \A k \in keys :
                   /\ r.mode = "click"
                   /\ own = 1..(1 + Cardinality(eligible))
                   /\ at[k].selector = SEARCH_INPUTS[k - Cardinality(own)]
            /\ r.mode = "fill" => keys = { }

\* The step's selector is the first submit fallback: it is clicked once,
\* the two other submits follow, then the key press on the second input
\* succeeds.
C14_Witness ==
    /\ resolver # << >>
    /\ resolver[1].mode = "click"
    /\ resolver[1].selector = SEARCH_SUBMITS[1]
    /\ Len(resolver[1].attempts) = 5
    /\ resolver[1].attempts[5] = Attempt("key", SEARCH_INPUTS[2], "ok")

\* ------------------------------------------------- properties of the extractor
\* A call of extract_products that has returned and in which nothing raised,
\* on a page that is not blocked and where the card poll finds containers.
CleanRun ==
    /\ extractor # << >>
    /\ extractor[1].returned
    /\ extractor[1].where = "none"
    /\ ~ extractor[1].page.blocked
    /\ extractor[1].page.items

Ascending(ps) == \A i \in 1..(Len(ps) - 1) : ps[i].price <= ps[i + 1].price

Count(seq, Test(_)) == Cardinality({ i \in 1..Len(seq) : Test(seq[i]) })

BadPrice(c) == money(c.price_text) = NaN \/ money(c.price_text) <= 0

\* The case of C15: no bound in the goal and every card has its title and
\* its link, so that a card is sponsored (K), has a price text that is not a
\* positive number (M), or is a product.
C15_Case ==
    /\ CleanRun
    /\ extractor[1].min_price = None /\ extractor[1].max_price = None
    /\ \A i \in 1..Len(extractor[1].page.cards) :
           extractor[1].page.cards[i].title # "" /\ extractor[1].page.cards[i].link # ""

C15_Expected ==
    Len(extractor[1].page.cards)
      - Count(extractor[1].page.cards, LAMBDA c : c.sponsored)
      - Count(extractor[1].page.cards, LAMBDA c : ~ c.sponsored /\ BadPrice(c))

C17_BlockShortCircuits ==
    (extractor # << >> /\ extractor[1].returned) =>
        LET c == extractor[1]
            in_trace(ph) == \E i \in 1..Len(c.trace) : c.trace[i] = ph
        IN  /\ Cardinality({ i \in 1..Len(c.trace) : c.trace[i] = "block_check" }) <= 1
            /\ (c.page.blocked /\ c.where \notin { "hints", "goto", "block_check" })
                 => /\ c.products = << >>
                    /\ ~ c.raised
                    /\ SubSeq(c.trace, 1, 4) = << "hints", "goto", "block_check", "block_diag" >>
                    /\ \A ph \in { "popups", "wait", "scroll", "poll", "primary",
                                    "fallback", "filter", "sort" } : ~ in_trace(ph)

\* A blocked page that carries a valid card all the same.
C17_Witness ==
    /\ extractor # << >>
    /\ extractor[1].returned
    /\ extractor[1].page.blocked
    /\ extractor[1].page.items
    /\ extractor[1].where = "none"
    /\ extractor[1].page.cards = << CardA >>
    /\ extractor[1].trace = << "hints", "goto", "block_check", "block_diag" >>
    /\ extractor[1].products = << >>

\* C18: every product extract_products returns, from the primary or from
\* the fallback pass, has a title, a link and a price above 0, comes from a
\* card of the page that is not flagged sponsored, and lies inside the
\* bound of the goal, ends included: a product of the pass that ran whose
\* price equals a bound is returned.
C18_ReturnedProductsAreValid ==
    (extractor # << >> /\ extractor[1].returned) =>
        LET c == extractor[1]
            inside(price) ==
                /\ c.min_price # None => price >= c.min_price
                /\ c.max_price # None => price <= c.max_price
            pass == PassProducts(c.page.cards)
        IN  /\ \A i \in 1..Len(c.products) :
                   LET p == c.products[i]
                   IN  /\ p.title # "" /\ p.link # ""
                       /\ p.price # NaN /\ p.price > 0
                       /\ inside(p.price)
                       /\ \E j \in 1..Len(c.page.cards) :
                              /\ c.page.cards[j].title = p.title
                              /\ c.page.cards[j].link = p.link
                              /\ ~ c.page.cards[j].sponsored
                              /\ p.price \in { c.page.cards[j].price_text,
                                                c.page.cards[j].color_price }
            /\ CleanRun =>
                   \A i \in 1..Len(pass) :
                       inside(pass[i].price) => \E k \in 1..Len(c.products) : c.products[k] = pass[i]

\* "over 2" keeps the card priced 2, with a cheaper card dropped.
C18_Witness ==
    /\ CleanRun
    /\ extractor[1].min_price = 2
    /\ extractor[1].page.cards = << CardA, CardB >>
    /\ extractor[1].products = << Product("B", "/b", 2) >>

\* C19: extract_products never raises: a fault in any phase (hints,
\* navigation, markup fetch, waiting, scrolling, polling, field extraction,
\* diagnostics) ends in an empty list, whether or not the diagnostics of the
\* except clause go through, and nothing after the faulting phase runs; the
\* extract handler of the engine then sees an empty result and fails the
\* step with "Extraction failed.".
C19_ExtractorNeverRaises ==
    (extractor # << >> /\ extractor[1].returned) =>
        LET c   == extractor[1]
            g   == Goal(c.min_price, c.max_price)
            out == RunHandler(Entry("extract", 0), Env("no", { }, c.page), g)
        IN  /\ ~ c.raised
            /\ c.products = extract_products(c.page, c.min_price, c.max_price)
            /\ c.where # "none"
                 => /\ c.products = << >>
                    /\ Len(c.trace) >= 2
                    /\ c.trace[Len(c.trace)] = "except_diag"
                    /\ c.trace[Len(c.trace) - 1] = c.where
                    /\ ~ out.ok
                    /\ out.err = "Extraction failed."

\* The primary pass raises on a page with a valid card, and so do the
\* diagnostics of the except clause.
C19_Witness ==
    /\ extractor # << >>
    /\ extractor[1].returned
    /\ extractor[1].where = "primary"
    /\ ~ extractor[1].diag_ok
    /\ extractor[1].page.cards = << CardA >>
    /\ extractor[1].products = << >>
    /\ ~ extractor[1].raised

\* --------------------------------------------------- properties of the parser
\* C20: parsing is idempotent: whatever the goal, and also when it holds a
\* range phrase together with a single-sided phrase or several priced
\* phrases, parsing the cleaned query of a parse yields no bound (min and
\* max both None).
C20_ParserIdempotent ==
    (parser # << >> /\ parser[1].calls = 2)
        => (parser[1].second.min_price = None /\ parser[1].second.max_price = None)

\* The goal holds the words of `phrase` next to one another.
Holds(g, phrase) ==
    \E i \in 1..Len(g) :
        i + Len(phrase) - 1 <= Len(g) /\ SubSeq(g, i, i + Len(phrase) - 1) = phrase

\* Where the goal has a range phrase, and where a comparison phrase.
RangesOf(g) == { i \in 1..Len(g) : RangeAt(g, i) }

ComparisonsOf(g) == { i \in 1..(Len(g) - 1) : IsOp(g[i]) /\ IsNum(g[i + 1]) }

\* C21: a goal that holds "under 30" parses to the bound (None, 30), one
\* that holds "above 50" to (50, None), and a goal with no price phrase,
\* bare numbers included, to (None, None) with the query as it was.  The
\* first two are read for goals whose only price phrase is the one named:
\* no range phrase and no second comparison phrase.
C21_SingleSidedBounds ==
    (parser # << >> /\ parser[1].calls >= 1) =>
        LET g == parser[1].goal
            r == parser[1].first
            alone == RangesOf(g) = { } /\ Cardinality(ComparisonsOf(g)) = 1
        IN  /\ (Holds(g, << "under", "30" >>) /\ alone)
                 => (r.min_price = None /\ r.max_price = 30)
            /\ (Holds(g, << "above", "50" >>) /\ alone)
                 => (r.min_price = 50 /\ r.max_price = None)
            /\ (RangesOf(g) = { } /\ ComparisonsOf(g) = { })
                 => r = Parsed(None, None, g)

\* C22: a goal with a range phrase parses to the two-sided bound of its
\* first range phrase, whatever comparison phrase it also holds, and the
\* cleaned query is the goal without that phrase (and without any further
\* range phrase); a goal without a range phrase never gets both ends, so one
\* goal yields a range or a single-sided bound, never both.
C22_RangeTakesPrecedence ==
    (parser # << >> /\ parser[1].calls >= 1) =>
        LET g == parser[1].goal
            r == parser[1].first
        IN  /\ RangesOf(g) # { } =>
                   LET i == CHOOSE k \in RangesOf(g) : \A j \in RangesOf(g) : k <= j
                   IN  /\ r.min_price = float(g[i])
                       /\ r.max_price = float(g[i + 2])
                       /\ Len(r.cleaned) <= Len(g) - 3
                       /\ SubSeq(r.cleaned, 1, i - 1) = SubSeq(g, 1, i - 1)
                       /\ (\A j \in RangesOf(g) : j = i \/ j = i + 2)
                            => r.cleaned = SubSeq(g, 1, i - 1) \o SubSeq(g, i + 3, Len(g))
            /\ RangesOf(g) = { } => (r.min_price = None \/ r.max_price = None)

\* "under 30 30 to 50": the range wins and "under 30" stays in the query.
C22_Witness ==
    /\ parser # << >>
    /\ parser[1].calls = 1
    /\ parser[1].goal = << "under", "30", "30", "to", "50" >>
    /\ parser[1].first = Parsed(30, 50, << "under", "30" >>)

\* --------------------------------------------------------- properties of retry
\* C30: retry calls fn one call at a time and at most `tries` times; it
\* returns the value of the first call that does not raise and calls no
\* more after it; when all `tries` calls raise it raises the error of the
\* last one; with tries <= 0 it calls nothing and returns None.
C30_RetryContract ==
    /\ [](retrier # << >> =>
            LET r == retrier[1]
            IN  /\ r.calls >= 0
                /\ r.calls <= (IF r.tries > 0 THEN r.tries ELSE 0)
                /\ (r.status = "returned" /\ r.result # None)
                     => /\ r.result = r.calls
                        /\ r.outcomes[r.result] = "ok"
                        /\ \A j \in 1..(r.result - 1) : r.outcomes[j] = "raise"
                /\ r.status = "raised"
                     => /\ r.tries >= 1
                        /\ r.calls = r.tries
                        /\ \A j \in 1..r.tries : r.outcomes[j] = "raise"
                        /\ r.last_err = r.tries
                /\ (r.status = "returned" /\ r.result = None)
                     => (r.tries <= 0 /\ r.calls = 0))
    /\ [][ retrier # << >> =>
              /\ retrier'[1].calls \in { retrier[1].calls, retrier[1].calls + 1 }
              /\ retrier[1].status # "running" => retrier' = retrier ]_vars

\* Both of two tries raised and the error of the second came out.
C30_Witness ==
    /\ retrier # << >>
    /\ retrier[1].tries = 2
    /\ retrier[1].status = "raised"
    /\ retrier[1].calls = 2
    /\ retrier[1].last_err = 2

\* ------------------------------------------- the engine: faults and counters
\* The transitions of a step failure: with a callback the run goes on to
\* the snapshot with the result untouched; without one str(e) is appended
\* to errors and the run aborts.
FailureTransition(msg) ==
    /\ step_idx' = step_idx
    /\ steps' = steps
    /\ IF llm_fn
       THEN /\ pc' = "snapshot"
            /\ state' = "REPLANNING"
            /\ results' = results
       ELSE /\ pc' = "close_context"
            /\ state' = "ABORTED"
            /\ results' = [ results EXCEPT !.errors = Append(@, msg) ]

\* C25: an exception of a goto, wait_for or scroll handler, a timeout or
\* any other, takes the transitions of an empty extraction (snapshot and
\* replan with a callback; str(e) appended and abort without one); a goto
\* whose DOM-ready wait alone times out is a success.
C25_FaultsFailLikeEmptyExtraction ==
    [][ Dispatched =>
          LET step == steps[step_idx + 1]
          IN  /\ \A env \in EnvsFor(step.action) :
                    (step.action \in { "goto", "wait_for", "scroll" } /\ Dispatch(env))
                        => IF Raises(env.fault)
                           THEN FailureTransition(FaultText(step.action, env.fault))
                           ELSE /\ step_idx' = step_idx + 1
                                /\ state' = state
                                /\ results' = results
              /\ (step.action = "extract" /\ last'.products = << >>)
                    => FailureTransition("Extraction failed.") ]_vars

\* A wait_for ran into its timeout with no callback configured.
C25_Witness ==
    /\ state = "ABORTED"
    /\ last.action = "wait_for"
    /\ results.errors = << FaultText("wait_for", "timeout") >>

\* A new plan has just been installed by the failure handler.
Replanned == pc = "call_llm" /\ pc' = "loop"

\* C26: 0 <= step_idx <= len(steps) in every state; step_idx changes only
\* by +1 when a step succeeds and by a reset to 0 when a plan is replaced;
\* the steps of one plan run in list order, one per loop turn, each index
\* at most once; the run is DONE exactly when step_idx has reached the
\* length of the plan.
C26_StepIndexDiscipline ==
    /\ [](0 <= step_idx /\ step_idx <= Len(steps))
    /\ [](state = "DONE" => step_idx = Len(steps))
    /\ [](executed > 0 => last.idx = executed - 1)
    /\ [][ /\ step_idx' # step_idx
                => \/ Dispatched /\ last'.treated = "success" /\ step_idx' = step_idx + 1
                   \/ Replanned /\ step_idx' = 0
           /\ Dispatched
                => /\ executed = step_idx
                   /\ last'.idx = step_idx
                   /\ last'.treated = "success" => step_idx' = step_idx + 1
                   /\ last'.treated = "failure" => (step_idx' = step_idx /\ pc' # "loop")
           /\ Replanned => (step_idx' = 0 /\ executed' = 0)
           /\ (pc = "loop" /\ step_idx = Len(steps)) => state' = "DONE"
           /\ (state' = "DONE" /\ state # "DONE") => (pc = "loop" /\ step_idx = Len(steps))
         ]_vars

\* A two-step plan failed at its second step, was replaced, and the step
\* of the new plan ran through.
C26_Witness ==
    /\ state = "DONE"
    /\ replans = 1
    /\ llm_calls # << >>
    /\ llm_calls[1].context.idx = 1
    /\ step_idx = 1
    /\ last.idx = 0

\* C27: errors never holds more than one entry; an entry is appended only
\* by the transition to ABORTED; a DONE run has no entry however many
\* failures and replans came before, an ABORTED run has exactly one.
C27_AtMostOneError ==
    /\ [](Len(results.errors) <= 1)
    /\ [](state = "DONE" => results.errors = << >>)
    /\ [](state = "ABORTED" => Len(results.errors) = 1)
    /\ [][ results'.errors # results.errors
              => /\ state # "ABORTED"
                 /\ state' = "ABORTED"
                 /\ \E msg \in { "No steps generated during replan.", "Extraction failed." }
                                \cup { FaultText(a, f) : a \in { "goto", "wait_for", "scroll" },
                                                         f \in { "raise", "timeout" } } :
                        results'.errors = Append(results.errors, msg) ]_vars

\* DONE after as many replaced plans as the bound allows.
C27_Witness ==
    /\ state = "DONE"
    /\ replans = MaxReplans
    /\ results.errors = << >>

\* C28: data and selected change only when an extract step succeeds, and
\* then data becomes the products of that step (those it held are gone)
\* and selected one of them; step failure, replanning and abort leave
\* both as they are.
C28_DataChangesOnlyOnExtract ==
    [][ /\ (results'.data # results.data \/ results'.selected # results.selected)
            => /\ Dispatched
               /\ last'.action = "extract"
               /\ last'.treated = "success"
        /\ (Dispatched /\ last'.action = "extract" /\ last'.treated = "success")
            => /\ results'.data = last'.products
               /\ \E i \in 1..Len(last'.products) : results'.selected = << last'.products[i] >>
               /\ results'.errors = results.errors
        /\ (last'.treated = "failure" \/ Replanned \/ state' = "ABORTED")
            => /\ results'.data = results.data
               /\ results'.selected = results.selected ]_vars

\* An extract succeeded, a later step failed and the callback had no steps:
\* the aborted result holds a selection and an error.
C28_Witness ==
    /\ llm_fn
    /\ state = "ABORTED"
    /\ results.selected # << >>
    /\ results.errors = << "No steps generated during replan." >>

\* ------------------------------------------ properties of concurrent executions
\* C24: two concurrent execute_plan calls share no mutable state: each has
\* a session of its own, a step of one run leaves the other run's session
\* and result object alone, and no run overwrites a diagnostic file the
\* other run wrote.
C24_RunsShareNoState ==
    /\ []((runs # << >> /\ runs[1].session # NoSession /\ runs[2].session # NoSession)
            => runs[1].session # runs[2].session)
    /\ [][ runs # << >> =>
              /\ \A i \in 1..2 : runs'[i] # runs[i] => runs'[3 - i] = runs[3 - i]
              /\ \A f \in DiagFiles : files[f] \in { NoWriter, files'[f] } ]_vars

\* ------------------------------------------------- properties of the planner
\* C23: whatever the model call does (no API key, API error, empty text,
\* unparseable text, JSON that is no list, an empty list, a list whose
\* entries are no mappings), generate_ai_plan returns, and returns a
\* non-empty step list.
C23_PlannerAlwaysReturnsPlan ==
    (planner # << >> /\ planner[1].status # "pending")
        => /\ planner[1].status = "returned"
           /\ Len(planner[1].steps) > 0

\* ---------------------------------------------------- properties of /run-ai
\* C29: with generate_ai_plan as the callback, the "No steps generated
\* during replan." abort cannot happen and a failed step is always followed
\* by another plan: once an extract step has failed on the blocked site,
\* the run reaches no terminal state and the request gets no response.
C29_BlockedRequestNeverEnds ==
    (service # << >> /\ last.action = "extract" /\ last.treated = "failure")
        => /\ service[1].response = "none"
           /\ state \notin { "DONE", "ABORTED", "RAISED" }
           /\ results.errors = << >>

====
